---- MODULE Spec2Model ----
(***************************************************************************)
(* The tool-augmented conversation loop of tytux: agent_loop of            *)
(* MCPGeminiAgent (client.py, tools reached through an MCP session) and of *)
(* NewRelicGeminiAgent (simplechat.py, tools executed by direct HTTP).     *)
(* One agent instance is modelled; `variant` says which class it is.       *)
(* Every step is what the coroutine does between two awaits.               *)
(* Spec is agent_loop called directly; SpecFlask puts MCPGeminiAgent       *)
(* behind the Flask routes of webapp.py and webapp_fixed.py; SpecQuart     *)
(* puts NewRelicGeminiAgent behind the concurrent views of                 *)
(* simplechat_app.py; SpecStreamlit puts MCPGeminiAgent behind the script  *)
(* of ui.py; SpecAdapters is MCPGeminiAgent behind any of its adapters     *)
(* (the Flask routes, the Streamlit script, main() of client.py).          *)
(***************************************************************************)
EXTENDS Naturals, Sequences, FiniteSets

VARIABLES
    variant,              \* "mcp" (client.py) or "direct" (simplechat.py)
    contents,             \* self.contents, the conversation store
    tools,                \* self.tools, the declarations sent to the model
    pc,                   \* what agent_loop is awaiting ("idle": not running)
    prompt,               \* the prompt argument of the running agent_loop
    response,             \* the local `response`
    turn_count,           \* the local `turn_count`
    tool_response_parts,  \* the local `tool_response_parts`
    fc_index,             \* position of the for loop in response.function_calls
    request,              \* the generate_content request in flight
    result,               \* what the last agent_loop returned (or raised)
    log,                  \* history: the calls made by the running agent_loop
    executed,             \* history: the executor calls made for the current reply
    preLen,               \* history: len(self.contents) when agent_loop was called
    spent,                \* environment choices used so far (see MaxChoices)
    adapter,              \* which program drives the agent ("none": agent_loop alone)
    agent,                \* the global `agent`: 0 for None, else the n-th object made
    connected,            \* webapp.py: the global `connected`
    exit_stack,           \* MCPGeminiAgent.exit_stack: the contexts entered, oldest first
    route,                \* the Flask view function that is running ("none": no request);
                          \* "setup_connection" while that method of simplechat.py runs
    at,                   \* what that view function is awaiting inside run_async
    message,              \* the local `message` of chat()
    orphaned,             \* executor channels still open on agent objects no longer referenced
    cancelled,            \* history: the store left by the last timed-out agent_loop
    agents,               \* simplechat_app.py: the NewRelicGeminiAgent objects made so far
    messages,             \* simplechat_app.py: the global `messages`
    req,                  \* simplechat_app.py: the view coroutines being served
    cleared,              \* history: the agent and its store when /clear last ran
    session,              \* MCPGeminiAgent.session: "None", "ClientSession", "initialized";
                          \* NewRelicGeminiAgent.session_initialized: "None" for False
    chat_history,         \* ui.py: st.session_state.chat_history
    processing,           \* ui.py: st.session_state.processing
    user_request,         \* ui.py: st.session_state.user_request
    current_request,      \* ui.py: the local `current_request` of the pending handler
    script,               \* ui.py / client.py main: what the script run is awaiting
    accepted,             \* history: the requests ui.py took from the input so far
    passed                \* history: the agent_loop calls ui.py made for the latest request

callVars == <<variant, contents, tools, pc, prompt, response, turn_count,
              tool_response_parts, fc_index, request, result, log, executed, preLen>>

loopVars == <<callVars, spent>>

flaskVars == <<adapter, connected, exit_stack, route, at, message, orphaned, cancelled>>

quartVars == <<agents, messages, req, cleared>>

uiVars == <<chat_history, processing, user_request, current_request, script,
           accepted, passed>>

adapterVars == <<agent, session, flaskVars, quartVars, uiVars>>

vars == <<loopVars, adapterVars>>

(***************************************************************************)
(* Bounds of the exploration.  Every call of agent_loop and every          *)
(* environment outcome off the plain scenario (a blank prompt, a changed   *)
(* catalog, a failing or malformed model reply, a reply with several       *)
(* invocations, a failing tool call) costs one unit of MaxChoices.         *)
(***************************************************************************)
MaxChoices == 3

max_tool_turns == 5

(***************************************************************************)
(* Values                                                                  *)
(***************************************************************************)
None == "<None>"

Prompts == {"", "   ", "list accounts"}

\* str.strip() of the prompts above
strip(s) == IF s \in {"", "   "} THEN "" ELSE s

StaticTools == {"executeQuery", "describeDomain", "introspect"}

Catalogs == {{"introspect", "executeQuery"}, {"introspect"}}

NoParts == << >>

UserTurn(text) ==
    [role |-> "user", part |-> "text", text |-> text,
     function_calls |-> << >>, responses |-> NoParts]

ModelTurn(r) ==
    [role |-> "model", part |-> "content", text |-> r.text,
     function_calls |-> r.function_calls, responses |-> NoParts]

ToolTurn(parts) ==
    [role |-> "user", part |-> "function_response", text |-> None,
     function_calls |-> << >>, responses |-> parts]

\* types.Part.from_function_response(name=tool_name, response=tool_response)
\* a part built without the response dict
FunctionResponsePart_without_response(name, tool_response) ==
    [name |-> name, key |-> "none", text |-> << >>]

FunctionResponsePart(name, tool_response) ==
    [name |-> name, key |-> tool_response.key, text |-> tool_response.text]

NoResponse == [candidates |-> FALSE, function_calls |-> << >>, text |-> None]

NoRequest == [contents |-> << >>, temperature |-> "none", tools |-> {}]

NoResult == [type |-> "pending", kind |-> "pending", text |-> None]

(***************************************************************************)
(* What the collaborators can answer.                                      *)
(***************************************************************************)
\* A GenerateContentResponse: `candidates` says whether response.candidates is
\* non-empty, function_calls is response.function_calls (empty for None),
\* text is response.text (None when the reply has no text part).
PlainAnswer  == [candidates |-> TRUE, function_calls |-> << >>, text |-> "answer"]
OneCall      == [candidates |-> TRUE, function_calls |-> <<"executeQuery">>, text |-> None]
TwoCalls     == [candidates |-> TRUE, function_calls |-> <<"introspect", "executeQuery">>,
                 text |-> "partial"]
EmptyShape   == [candidates |-> TRUE, function_calls |-> << >>, text |-> None]
NoCandidates == [candidates |-> FALSE, function_calls |-> << >>, text |-> None]

\* generate_content either raises or returns one of the responses above
ModelOutcomes ==
    {[raised |-> FALSE, response |-> r] :
        r \in {PlainAnswer, OneCall, TwoCalls, EmptyShape, NoCandidates}}
    \cup {[raised |-> TRUE, response |-> NoResponse]}

ModelCost(o) == IF ~o.raised /\ o.response \in {PlainAnswer, OneCall} THEN 0 ELSE 1

\* session.call_tool either raises or returns a CallToolResult {isError, content}
ToolOk       == [raised |-> FALSE, isError |-> FALSE, content |-> <<"rows">>]
ToolAppError == [raised |-> FALSE, isError |-> TRUE, content |-> <<"bad query">>]
ToolNoContent == [raised |-> FALSE, isError |-> TRUE, content |-> << >>]
ToolRaised   == [raised |-> TRUE, isError |-> FALSE, content |-> <<"ConnectionError", "closed">>]

ToolOutcomes == {ToolOk, ToolAppError, ToolNoContent, ToolRaised}

ToolCost(o) == IF o = ToolOk THEN 0 ELSE 1

\* requests.post either raises requests.RequestException or returns a response
\* with a status code and a JSON body that may carry an `errors` field
HttpOk      == [raised |-> FALSE, status_code |-> 200, errors |-> FALSE]
HttpErrors  == [raised |-> FALSE, status_code |-> 200, errors |-> TRUE]
HttpFailed  == [raised |-> FALSE, status_code |-> 500, errors |-> TRUE]
HttpNetwork == [raised |-> TRUE, status_code |-> 0, errors |-> FALSE]

HttpOutcomes == {HttpOk, HttpErrors, HttpFailed, HttpNetwork}

HttpCost(h) == IF h = HttpOk THEN 0 ELSE 1

\* setup_connection: initial_prompt
initial_prompt == "Use account ID"

PromptCost(p) == IF p \in {"list accounts", initial_prompt} THEN 0 ELSE 1

CatalogCost(c) == IF c = {"introspect", "executeQuery"} THEN 0 ELSE 1

(***************************************************************************)
(* Pieces of agent_loop shared by the steps below.                         *)
(***************************************************************************)
\* a store that keeps a window of the latest turns only
contents_append_window(store, turn) ==
    IF Len(store) >= 4 THEN Tail(store) \o <<turn>> ELSE Append(store, turn)

\* a store that starts over with every turn
contents_append_forgetting(store, turn) == <<turn>>

\* self.contents.append(turn)
contents_append(store, turn) == Append(store, turn)

\* parts collected newest first
parts_prepend(parts, part) == <<part>> \o parts

\* tool_response_parts.append(part)
parts_append(parts, part) == Append(parts, part)

Executed(name, outcome, of) == [name |-> name, outcome |-> outcome, of |-> of]

Event(ev, what, n) == [ev |-> ev, what |-> what, n |-> n]

\* a follow-up call that keeps the temperature of the first call
followup_temperature_unchanged == "0"

\* types.GenerateContentConfig(temperature=0, ...) of the first call
first_temperature == "0"

\* types.GenerateContentConfig(temperature=1.0, ...) of the follow-up calls
followup_temperature == "1.0"

\* a request that sends the newest turn only
GenerateContentRequest_last_turn(store, temperature, catalog) ==
    [contents |-> IF store = << >> THEN << >> ELSE <<store[Len(store)]>>,
     temperature |-> temperature, tools |-> catalog]

GenerateContentRequest(store, temperature, catalog) ==
    [contents |-> store, temperature |-> temperature, tools |-> catalog]

\* a loop test that admits one more round
while_condition_inclusive(resp, tc) ==
    resp.function_calls # << >> /\ tc <= max_tool_turns

\* while response.function_calls and turn_count < max_tool_turns
while_condition(resp, tc) == resp.function_calls # << >> /\ tc < max_tool_turns

\* if turn_count >= max_tool_turns and response.function_calls
truncated(resp, tc) == tc >= max_tool_turns /\ resp.function_calls # << >>

\* a tool response that does not look at isError
MCP_tool_response_ignoring_isError(o) ==
    IF o.raised
    THEN [key |-> "error", text |-> <<"Tool execution failed">> \o o.content]
    ELSE IF o.content = << >>
    THEN [key |-> "error", text |-> <<"Tool execution failed", "IndexError">>]
    ELSE [key |-> "result", text |-> <<o.content[1]>>]

\* client.py: the try/except around session.call_tool
MCP_tool_response(o) ==
    IF o.raised
    THEN [key |-> "error", text |-> <<"Tool execution failed">> \o o.content]
    ELSE IF o.content = << >>
    THEN [key |-> "error", text |-> <<"Tool execution failed", "IndexError">>]
    ELSE IF o.isError
    THEN [key |-> "error", text |-> <<o.content[1]>>]
    ELSE [key |-> "result", text |-> <<o.content[1]>>]

\* the failure path returning nothing
MCP_SimpleResponse_missing == [type |-> "None", kind |-> "response", text |-> None]

\* client.py: SimpleResponse(f"Error calling Gemini API: {str(e)}")
MCP_SimpleResponse == [type |-> "object", kind |-> "backend_error",
                       text |-> "Error calling Gemini API"]

\* client.py: the final response processing.  What response.candidates[0].content.text
\* and setattr(response_obj, 'text', ...) do is decided by the google-genai
\* classes: every outcome the try/except blocks allow is possible.
MCP_final_results(resp) ==
    LET extracted ==
            IF ~resp.candidates
            THEN {"I received an incomplete response. Please try again."}
            ELSE {"I encountered an error processing the response. Please try again."}
                 \cup (IF resp.text = None THEN {} ELSE {resp.text})
    IN  {[type |-> "object", kind |-> "response", text |-> t] : t \in extracted}
        \cup {[type |-> "object", kind |-> "fallback",
               text |-> "I encountered an error. Please try again."]}

\* simplechat.py: _execute_graphql; raised says whether it raises
execute_graphql(h) ==
    IF h.raised
    THEN [raised |-> TRUE, value |-> <<"Exception", "Network error during GraphQL request">>]
    ELSE IF h.status_code # 200
    THEN [raised |-> TRUE,
          value |-> <<"Exception", "GraphQL request failed with status code">>]
    ELSE [raised |-> FALSE,
          value |-> <<"json", IF h.errors THEN "errors" ELSE "data">>]

\* a tool response that hands the exception text back as a result
NR_tool_response_as_result(h) ==
    [key |-> "result", text |-> execute_graphql(h).value]

\* simplechat.py: the try/except around _execute_graphql
NR_tool_response(h) ==
    LET r == execute_graphql(h)
    IN  IF r.raised
        THEN [key |-> "error", text |-> <<"Tool execution failed">> \o r.value]
        ELSE [key |-> "result", text |-> r.value]

\* simplechat.py: what agent_loop returns once the loop is left
NR_return(resp, tc) ==
    IF truncated(resp, tc)
    THEN [type |-> "str", kind |-> "truncated", text |-> resp.text]
    ELSE IF resp.text = None
    THEN [type |-> "None", kind |-> "response", text |-> None]
    ELSE [type |-> "str", kind |-> "response", text |-> resp.text]

\* simplechat.py: return f"Error processing request: {str(e)}"
NR_error_return == [type |-> "str", kind |-> "backend_error",
                    text |-> "Error processing request"]

Raised(where) == [type |-> "exception", kind |-> where, text |-> None]

(***************************************************************************)
(* The state after construction.                                           *)
(***************************************************************************)
\* MCPGeminiAgent.__init__: the seed prompt and the dummy model reply
MCP_seed ==
    << UserTurn("Use account ID"),
       [role |-> "model", part |-> "content", text |-> "I'll use account ID",
        function_calls |-> << >>, responses |-> NoParts] >>

\* the view coroutines the Quart event loop can be serving at once
Requests == {"r1", "r2"}

\* a slot in which no view function is running
NoView == [view |-> "none", call |-> "none", pc |-> "idle", self |-> 0,
           message |-> "", response |-> NoResponse, turn_count |-> 0,
           parts |-> NoParts, fc_index |-> 0, request |-> NoRequest]

\* simplechat_app.py is not running
NoQuart ==
    /\ agents = << >>
    /\ messages = << >>
    /\ req = [r \in Requests |-> NoView]
    /\ cleared = << >>

\* ui.py is not running
NoStreamlit ==
    /\ chat_history = << >>
    /\ processing = FALSE
    /\ user_request = None
    /\ current_request = None
    /\ script = "none"
    /\ accepted = 0
    /\ passed = 0

\* no adapter: agent_loop is called directly on one agent object
NoAdapter ==
    /\ adapter = "none"
    /\ agent = 1
    /\ session = "initialized"
    /\ connected = TRUE
    /\ exit_stack = << >>
    /\ route = "none"
    /\ at = "none"
    /\ message = ""
    /\ orphaned = 0
    /\ cancelled = << >>

\* no agent_loop is running and none has run
CallIdle ==
    /\ pc = "idle"
    /\ prompt = None
    /\ response = NoResponse
    /\ turn_count = 0
    /\ tool_response_parts = NoParts
    /\ fc_index = 0
    /\ request = NoRequest
    /\ result = NoResult
    /\ log = << >>
    /\ executed = << >>
    /\ preLen = 0

LoopIdle == CallIdle /\ spent = 0

Init ==
    /\ variant \in {"mcp", "direct"}
    /\ contents = IF variant = "mcp" THEN MCP_seed ELSE << >>
    /\ tools = IF variant = "mcp" THEN {} ELSE StaticTools
    /\ NoAdapter
    /\ NoQuart
    /\ NoStreamlit
    /\ LoopIdle

Afford(cost) == spent + cost <= MaxChoices

(***************************************************************************)
(* MCPGeminiAgent.agent_loop (client.py)                                   *)
(***************************************************************************)
\* The call: the user turn is appended, then session.list_tools() is awaited.
MCP_agent_loop(p) ==
    /\ UNCHANGED adapterVars
    /\ variant = "mcp"
    /\ pc = "idle"
    /\ Afford(1 + PromptCost(p))
    /\ spent' = spent + 1 + PromptCost(p)
    /\ contents' = contents_append(contents, UserTurn(p))
    /\ prompt' = p
    /\ preLen' = Len(contents)
    /\ log' = << >>
    /\ executed' = << >>
    /\ result' = NoResult
    /\ response' = NoResponse
    /\ turn_count' = 0
    /\ tool_response_parts' = NoParts
    /\ fc_index' = 0
    /\ request' = NoRequest
    /\ pc' = "list_tools"
    /\ UNCHANGED <<variant, tools>>

\* session.list_tools() raised: the exception leaves agent_loop.
MCP_list_tools_raises ==
    /\ UNCHANGED adapterVars
    /\ variant = "mcp"
    /\ pc = "list_tools"
    /\ Afford(1)
    /\ spent' = spent + 1
    /\ log' = Append(log, Event("list_tools", "raise", 0))
    /\ result' = Raised("list_tools")
    /\ pc' = "idle"
    /\ UNCHANGED <<variant, contents, tools, prompt, response, turn_count,
                   tool_response_parts, fc_index, request, executed, preLen>>

\* session.list_tools() returned: self.tools is set and the first
\* generate_content call is sent with temperature 0.
MCP_list_tools(catalog) ==
    /\ UNCHANGED adapterVars
    /\ variant = "mcp"
    /\ pc = "list_tools"
    /\ Afford(CatalogCost(catalog))
    /\ spent' = spent + CatalogCost(catalog)
    /\ tools' = catalog
    /\ request' = GenerateContentRequest(contents, first_temperature, catalog)
    /\ log' = log \o << Event("list_tools", "ok", 0),
                        Event("generate_content", first_temperature, Len(contents)) >>
    /\ pc' = "generate_first"
    /\ UNCHANGED <<variant, contents, prompt, response, turn_count,
                   tool_response_parts, fc_index, result, executed, preLen>>

\* The while test and what follows it, for the response `resp` now held:
\* either the loop body starts (the first call_tool is awaited) or the final
\* response processing runs and agent_loop returns.
MCP_while(resp) ==
    IF while_condition(resp, turn_count)
    THEN /\ turn_count' = turn_count + 1
         /\ tool_response_parts' = NoParts
         /\ fc_index' = 1
         /\ executed' = << >>
         /\ pc' = "call_tool"
         /\ result' = result
    ELSE /\ \E res \in MCP_final_results(resp) : result' = res
         /\ pc' = "idle"
         /\ UNCHANGED <<turn_count, tool_response_parts, fc_index, executed>>

\* The first generate_content call completes.
MCP_generate_first(o) ==
    /\ UNCHANGED adapterVars
    /\ variant = "mcp"
    /\ pc = "generate_first"
    /\ Afford(ModelCost(o))
    /\ spent' = spent + ModelCost(o)
    /\ IF o.raised \/ ~o.response.candidates
       THEN /\ log' = Append(log, Event("reply", IF o.raised THEN "raise" ELSE "no_candidates", 0))
            /\ result' = MCP_SimpleResponse
            /\ pc' = "idle"
            /\ UNCHANGED <<contents, response, turn_count, tool_response_parts, fc_index,
                           executed>>
       ELSE /\ log' = Append(log, Event("reply", "ok", Len(o.response.function_calls)))
            /\ contents' = contents_append(contents, ModelTurn(o.response))
            /\ response' = o.response
            /\ MCP_while(o.response)
    /\ UNCHANGED <<variant, tools, prompt, request, preLen>>

\* One session.call_tool completes.  After the last invocation of the reply the
\* tool responses are appended as one turn and generate_content is called
\* again with temperature 1.0.
MCP_call_tool(o) ==
    /\ UNCHANGED adapterVars
    /\ variant = "mcp"
    /\ pc = "call_tool"
    /\ Afford(ToolCost(o))
    /\ spent' = spent + ToolCost(o)
    /\ LET tool_name == response.function_calls[fc_index]
           parts == parts_append(tool_response_parts,
                           FunctionResponsePart(tool_name, MCP_tool_response(o)))
           called == Event("call_tool", MCP_tool_response(o).key, fc_index)
           ran == Executed(tool_name, o, Len(response.function_calls))
       IN  /\ tool_response_parts' = parts
           /\ executed' = Append(executed, ran)
           /\ IF fc_index < Len(response.function_calls)
              THEN /\ fc_index' = fc_index + 1
                   /\ log' = Append(log, called)
                   /\ UNCHANGED <<contents, request, pc>>
              ELSE /\ contents' = contents_append(contents, ToolTurn(parts))
                   /\ request' = GenerateContentRequest(contents', followup_temperature, tools)
                   /\ log' = log \o << called,
                                       Event("generate_content", followup_temperature, Len(contents')) >>
                   /\ pc' = "generate_next"
                   /\ fc_index' = fc_index
    /\ UNCHANGED <<variant, tools, prompt, response, turn_count, result, preLen>>

\* The `response` local after a follow-up generate_content call: an exception
\* is swallowed and leaves it as it was.
MCP_updated_response(o) == IF o.raised THEN response ELSE o.response

\* A follow-up generate_content call completes.
MCP_generate_next(o) ==
    /\ UNCHANGED adapterVars
    /\ variant = "mcp"
    /\ pc = "generate_next"
    /\ Afford(ModelCost(o))
    /\ spent' = spent + ModelCost(o)
    /\ response' = MCP_updated_response(o)
    /\ IF ~o.raised /\ o.response.candidates
       THEN /\ contents' = contents_append(contents, ModelTurn(o.response))
            /\ log' = Append(log, Event("reply", "ok", Len(o.response.function_calls)))
       ELSE /\ contents' = contents
            /\ log' = Append(log, Event("reply", IF o.raised THEN "raise" ELSE "no_candidates", 0))
    /\ MCP_while(response')
    /\ UNCHANGED <<variant, tools, prompt, request, preLen>>

(***************************************************************************)
(* NewRelicGeminiAgent.agent_loop (simplechat.py)                          *)
(***************************************************************************)
\* The call: the user turn is appended and the first generate_content call
\* is sent with temperature 0 and the static tool declarations.
NR_agent_loop(p) ==
    /\ UNCHANGED adapterVars
    /\ variant = "direct"
    /\ pc = "idle"
    /\ Afford(1 + PromptCost(p))
    /\ spent' = spent + 1 + PromptCost(p)
    /\ contents' = contents_append(contents, UserTurn(p))
    /\ prompt' = p
    /\ preLen' = Len(contents)
    /\ request' = GenerateContentRequest(contents', first_temperature, tools)
    /\ log' = << Event("generate_content", first_temperature, Len(contents')) >>
    /\ executed' = << >>
    /\ result' = NoResult
    /\ response' = NoResponse
    /\ turn_count' = 0
    /\ tool_response_parts' = NoParts
    /\ fc_index' = 0
    /\ pc' = "generate_first"
    /\ UNCHANGED <<variant, tools>>

\* The while test and what follows it: the loop body starts (the first
\* _execute_graphql is awaited) or agent_loop returns.
NR_while(resp) ==
    IF while_condition(resp, turn_count)
    THEN /\ turn_count' = turn_count + 1
         /\ tool_response_parts' = NoParts
         /\ fc_index' = 1
         /\ executed' = << >>
         /\ pc' = "call_tool"
         /\ result' = result
    ELSE /\ result' = NR_return(resp, turn_count)
         /\ pc' = "idle"
         /\ UNCHANGED <<turn_count, tool_response_parts, fc_index, executed>>

\* A generate_content call completes, the first one or a follow-up: both are
\* followed by self.contents.append(response.candidates[0].content) inside the
\* one try block, whose except returns the error string.
NR_generate(o) ==
    /\ UNCHANGED adapterVars
    /\ variant = "direct"
    /\ pc \in {"generate_first", "generate_next"}
    /\ Afford(ModelCost(o))
    /\ spent' = spent + ModelCost(o)
    /\ IF o.raised \/ ~o.response.candidates
       THEN /\ log' = Append(log, Event("reply", IF o.raised THEN "raise" ELSE "no_candidates", 0))
            /\ response' = IF o.raised THEN response ELSE o.response
            /\ result' = NR_error_return
            /\ pc' = "idle"
            /\ UNCHANGED <<contents, turn_count, tool_response_parts, fc_index, executed>>
       ELSE /\ log' = Append(log, Event("reply", "ok", Len(o.response.function_calls)))
            /\ contents' = contents_append(contents, ModelTurn(o.response))
            /\ response' = o.response
            /\ NR_while(o.response)
    /\ UNCHANGED <<variant, tools, prompt, request, preLen>>

\* One _execute_graphql completes.  After the last invocation of the reply the
\* tool responses are appended as one turn and generate_content is called
\* again with temperature 1.0.
NR_execute_graphql(h) ==
    /\ UNCHANGED adapterVars
    /\ variant = "direct"
    /\ pc = "call_tool"
    /\ Afford(HttpCost(h))
    /\ spent' = spent + HttpCost(h)
    /\ LET tool_name == response.function_calls[fc_index]
           parts == parts_append(tool_response_parts,
                           FunctionResponsePart(tool_name, NR_tool_response(h)))
           called == Event("call_tool", NR_tool_response(h).key, fc_index)
           ran == Executed(tool_name, h, Len(response.function_calls))
       IN  /\ tool_response_parts' = parts
           /\ executed' = Append(executed, ran)
           /\ IF fc_index < Len(response.function_calls)
              THEN /\ fc_index' = fc_index + 1
                   /\ log' = Append(log, called)
                   /\ UNCHANGED <<contents, request, pc>>
              ELSE /\ contents' = contents_append(contents, ToolTurn(parts))
                   /\ request' = GenerateContentRequest(contents', followup_temperature, tools)
                   /\ log' = log \o << called,
                                       Event("generate_content", followup_temperature, Len(contents')) >>
                   /\ pc' = "generate_next"
                   /\ fc_index' = fc_index
    /\ UNCHANGED <<variant, tools, prompt, response, turn_count, result, preLen>>

Next ==
    \/ \E p \in Prompts : MCP_agent_loop(p)
    \/ MCP_list_tools_raises
    \/ \E c \in Catalogs : MCP_list_tools(c)
    \/ \E o \in ModelOutcomes : MCP_generate_first(o)
    \/ \E o \in ToolOutcomes : MCP_call_tool(o)
    \/ \E o \in ModelOutcomes : MCP_generate_next(o)
    \/ \E p \in Prompts : NR_agent_loop(p)
    \/ \E o \in ModelOutcomes : NR_generate(o)
    \/ \E h \in HttpOutcomes : NR_execute_graphql(h)

Spec == Init /\ [][Next]_vars

(***************************************************************************)
(* Vocabulary of the properties.                                           *)
(***************************************************************************)
IsPrefix(s, t) == Len(s) <= Len(t) /\ \A i \in 1..Len(s) : s[i] = t[i]

Last(s) == s[Len(s)]

\* agent_loop has been called and has returned a value
Returned == pc = "idle" /\ result.type \notin {"pending", "exception", "cancelled"}

ReplyEvents == {i \in DOMAIN log : log[i].ev = "reply"}

FailedReplies == {i \in ReplyEvents : log[i].what \in {"raise", "no_candidates"}}

ModelCalls == Cardinality({i \in DOMAIN log : log[i].ev = "generate_content"})

\* every generate_content call so far answered with at least one invocation
ModelAlwaysRequestsTools ==
    /\ ReplyEvents # {}
    /\ \A i \in ReplyEvents : log[i].what = "ok" /\ log[i].n >= 1

\* the first generate_content call of this agent_loop raised
FirstCallRaised ==
    /\ ReplyEvents # {}
    /\ \A i \in ReplyEvents : (\A j \in ReplyEvents : i <= j) => log[i].what = "raise"

\* an answer made up by agent_loop, not text of the model
Synthetic(res) ==
    /\ res.type \in {"str", "object"}
    /\ res.text \notin {None, PlainAnswer.text, TwoCalls.text}

IsToolTurn(turn) == turn.part = "function_response"

\* what the executor did, read off its raw outcome
ReportedError(variantOf, o) ==
    IF variantOf = "mcp"
    THEN ~o.raised /\ o.isError /\ o.content # << >>
    ELSE ~o.raised /\ (o.status_code # 200 \/ o.errors)

TransportFailure(o) == o.raised

Succeeded(variantOf, o) ==
    IF variantOf = "mcp"
    THEN ~o.raised /\ ~o.isError /\ o.content # << >>
    ELSE ~o.raised /\ o.status_code = 200 /\ ~o.errors

(***************************************************************************)
(* C1: when the model answers every call with at least one invocation,     *)
(* agent_loop returns after exactly 5 round-trips (6 generate_content      *)
(* calls) and what it returns is a string flagged as truncated.            *)
(***************************************************************************)
C1_TruncatedAfterFiveRoundTrips ==
    (Returned /\ ModelAlwaysRequestsTools) =>
        /\ turn_count = max_tool_turns
        /\ ModelCalls = max_tool_turns + 1
        /\ result.type = "str"
        /\ result.kind = "truncated"

\* what does hold in both variants: the loop is left after 5 round-trips
C1_StopsAfterFiveRoundTrips ==
    /\ turn_count <= max_tool_turns
    /\ ModelCalls <= max_tool_turns + 1
    /\ (Returned /\ ModelAlwaysRequestsTools) =>
           turn_count = max_tool_turns /\ ModelCalls = max_tool_turns + 1

(***************************************************************************)
(* C2: the conversation store is append-only: in every step the store      *)
(* before the step is a prefix of the store after it.                      *)
(***************************************************************************)
C2_AppendOnly == [][IsPrefix(contents, contents')]_vars

\* a second agent_loop ran its 5 tool rounds on top of an earlier one's turns
C2_Witness ==
    /\ pc = "idle"
    /\ variant = "direct"
    /\ preLen >= 1
    /\ Len(contents) = preLen + 2 * max_tool_turns + 2

(***************************************************************************)
(* C3: agent_loop called with an empty or whitespace-only prompt is        *)
(* rejected with EmptyInputError: no turn is appended and no               *)
(* generate_content call is made.                                          *)
(***************************************************************************)
C3_EmptyInputRejected ==
    (prompt # None /\ strip(prompt) = "") =>
        /\ Len(contents) = preLen
        /\ ModelCalls = 0
        /\ pc = "idle"
        /\ result.kind = "EmptyInputError"

(***************************************************************************)
(* C4: once a generate_content call of an agent_loop has failed (raised or *)
(* came back without candidates), nothing more is called in that           *)
(* agent_loop: the failure is the last event, and agent_loop has returned  *)
(* a synthetic answer.                                                     *)
(***************************************************************************)
C4_BackendFailureEndsLoop ==
    \A i \in FailedReplies :
        /\ i = Len(log)
        /\ pc = "idle"
        /\ Synthetic(result)

C6_ApplicationErrorRelayed ==
    (variant = "mcp" /\ pc \in {"call_tool", "generate_next"}) =>
        \A i \in DOMAIN executed :
            ReportedError("mcp", executed[i].outcome) =>
                /\ i \in DOMAIN tool_response_parts
                /\ tool_response_parts[i] =
                       [name |-> executed[i].name, key |-> "error",
                        text |-> <<executed[i].outcome.content[1]>>]
                /\ pc = "generate_next" =>
                       /\ IsToolTurn(Last(request.contents))
                       /\ Last(request.contents).responses = tool_response_parts
                       /\ request.contents = contents

\* the second of two invocations got an application error and the next
\* generate_content call is under way
C6_Witness ==
    /\ variant = "mcp"
    /\ pc = "generate_next"
    /\ Len(executed) = 2
    /\ executed[1].outcome = ToolOk
    /\ executed[2].outcome = ToolAppError

(***************************************************************************)
(* C7: a tool call that raises is not fatal: its response is an error      *)
(* "Tool execution failed: <cause>", the remaining invocations of the      *)
(* reply are executed, and the next generate_content call is made with     *)
(* the tool-result turn.                                                   *)
(***************************************************************************)
C7_TransportFailureNotFatal ==
    \A i \in DOMAIN executed :
        TransportFailure(executed[i].outcome) =>
            /\ i \in DOMAIN tool_response_parts
            /\ tool_response_parts[i].name = executed[i].name
            /\ tool_response_parts[i].key = "error"
            /\ Len(tool_response_parts[i].text) > 1
            /\ tool_response_parts[i].text[1] = "Tool execution failed"
            /\ \/ pc = "call_tool" /\ Len(executed) < executed[i].of
               \/ /\ Len(executed) = executed[i].of
                  /\ log[Len(log)].ev \in {"generate_content", "reply"}
                  /\ request.temperature = "1.0"
                  /\ Last(request.contents) = ToolTurn(tool_response_parts)

\* the first of two invocations raised, the second was still executed, and
\* the next generate_content call is under way
C7_Witness ==
    /\ pc = "generate_next"
    /\ Len(executed) = 2
    /\ TransportFailure(executed[1].outcome)
    /\ Succeeded(variant, executed[2].outcome)

(***************************************************************************)
(* C8: in NewRelicGeminiAgent, an HTTP response with a status other than   *)
(* 200, and equally a 200 response whose JSON carries `errors`, becomes an *)
(* error response (key "error", not "result") in the tool-result turn.     *)
(***************************************************************************)
C8_HttpErrorsSurfaced ==
    variant = "direct" =>
        \A i \in DOMAIN executed :
            ReportedError("direct", executed[i].outcome) =>
                /\ i \in DOMAIN tool_response_parts
                /\ tool_response_parts[i].key = "error"

\* the part of C8 the code does: a status other than 200 becomes an error
C8_Non200Surfaced ==
    variant = "direct" =>
        \A i \in DOMAIN executed :
            (~executed[i].outcome.raised /\ executed[i].outcome.status_code # 200) =>
                /\ i \in DOMAIN tool_response_parts
                /\ tool_response_parts[i].key = "error"

(***************************************************************************)
(* C9: each time a reply with n >= 1 invocations is processed, exactly one *)
(* tool-result turn is appended before the next generate_content call; it  *)
(* has n parts and its i-th part answers the i-th invocation (its name,    *)
(* and the outcome of the i-th executor call).                             *)
(***************************************************************************)
\* the length of the store sent with the generate_content call before the
\* last one
PreviousRequestLen ==
    LET calls == {i \in DOMAIN log : log[i].ev = "generate_content"}
        last == CHOOSE i \in calls : \A j \in calls : j <= i
        prev == CHOOSE i \in calls \ {last} : \A j \in calls \ {last} : j <= i
    IN  log[prev].n

\* whether the reply to that call was appended as a model turn
PreviousReplyAppended ==
    LET replies == ReplyEvents
        last == CHOOSE i \in replies : \A j \in replies : j <= i
    IN  log[last].what = "ok"

C9_OneToolTurnPerReply ==
    pc = "generate_next" =>
        LET fcs == response.function_calls
            store == request.contents
            turn == Last(store)
        IN  /\ store = contents
            /\ Len(fcs) >= 1
            /\ IsToolTurn(turn)
            /\ Len(turn.responses) = Len(fcs)
            /\ Len(executed) = Len(fcs)
            /\ \A i \in 1..Len(fcs) :
                   /\ turn.responses[i].name = fcs[i]
                   /\ executed[i].name = fcs[i]
                   /\ turn.responses[i].key \in {"result", "error"}
                   /\ Succeeded(variant, executed[i].outcome)
                          => turn.responses[i].key = "result"
                   /\ TransportFailure(executed[i].outcome)
                          => turn.responses[i].key = "error"
            /\ Len(store) = PreviousRequestLen + (IF PreviousReplyAppended THEN 2 ELSE 1)
            /\ ~IsToolTurn(store[Len(store) - 1]) => store[Len(store) - 1] = ModelTurn(response)
            /\ \A k \in (PreviousRequestLen + 1)..(Len(store) - 1) : ~IsToolTurn(store[k])

\* a reply with two invocations, the first failed and the second succeeded
C9_Witness ==
    /\ pc = "generate_next"
    /\ Len(response.function_calls) = 2
    /\ ~Succeeded(variant, executed[1].outcome)
    /\ Succeeded(variant, executed[2].outcome)
    /\ Last(contents).responses[1].key = "error"
    /\ Last(contents).responses[2].key = "result"

(***************************************************************************)
(* C10: in every reachable store each tool-result turn comes directly      *)
(* after a model turn that carries as many invocations as the turn has     *)
(* results (so no model turn is answered twice).                           *)
(***************************************************************************)
C10_ToolTurnFollowsItsModelTurn ==
    \A k \in DOMAIN contents :
        IsToolTurn(contents[k]) =>
            /\ k > 1
            /\ contents[k - 1].role = "model"
            /\ Len(contents[k - 1].function_calls) = Len(contents[k].responses)

(***************************************************************************)
(* C11: within one agent_loop the first generate_content call is sent with *)
(* temperature 0 and every later one with temperature 1.0; the next        *)
(* agent_loop starts again at 0.                                           *)
(***************************************************************************)
GenerateEvents == {i \in DOMAIN log : log[i].ev = "generate_content"}

C11_TemperaturePolicy ==
    /\ \A i \in GenerateEvents :
           log[i].what = IF \A j \in GenerateEvents : i <= j THEN "0" ELSE "1.0"
    /\ pc = "generate_first" => request.temperature = "0"
    /\ pc = "generate_next" => request.temperature = "1.0"

\* a second agent_loop sends its first call after an agent_loop that made
\* follow-up calls
C11_Witness ==
    /\ pc = "generate_first"
    /\ preLen >= 4
    /\ \E k \in 1..preLen : IsToolTurn(contents[k])
    /\ request.temperature = "0"

(***************************************************************************)
(* C12: agent_loop always returns a string; on a malformed or empty model  *)
(* reply it is a fixed apology, never None and never a string built from a *)
(* missing text.  Stated for NewRelicGeminiAgent, whose return value is    *)
(* fully determined by simplechat.py.                                      *)
(***************************************************************************)
C12_AlwaysReturnsString ==
    (Returned /\ variant = "direct") =>
        /\ result.type = "str"
        /\ result.text # None

(***************************************************************************)
(* C13: for a non-empty input no exception escapes agent_loop, the         *)
(* per-call fetch of the tool catalog included.                            *)
(***************************************************************************)
C13_NoExceptionEscapes ==
    (pc = "idle" /\ strip(prompt) # "") => result.type # "exception"

(***************************************************************************)
(* C14: when the loop is left by truncation (five round-trips done and the *)
(* last reply still asks for tools), the value returned is the last model  *)
(* text with a truncation notice, in both variants.                        *)
(***************************************************************************)
LastReplyRequestsTools ==
    /\ ReplyEvents # {}
    /\ \A i \in ReplyEvents :
           (\A j \in ReplyEvents : j <= i) => log[i].what = "ok" /\ log[i].n >= 1

C14_TruncationNotice ==
    (Returned /\ turn_count >= max_tool_turns /\ LastReplyRequestsTools) =>
        /\ result.kind = "truncated"
        /\ result.text = response.text

(***************************************************************************)
(* C15: after the first agent_loop of a conversation in which the model    *)
(* issues one invocation, the executor returns a value and the second      *)
(* generate_content call returns plain text, agent_loop returns that text  *)
(* and the store holds exactly 4 turns.                                    *)
(***************************************************************************)
FirstRespond == preLen = IF variant = "mcp" THEN Len(MCP_seed) ELSE 0

OneInvocationScenario ==
    /\ Cardinality(ReplyEvents) = 2
    /\ \A i \in ReplyEvents :
           /\ log[i].what = "ok"
           /\ log[i].n = IF \A j \in ReplyEvents : i <= j THEN 1 ELSE 0
    /\ response = PlainAnswer
    /\ Len(executed) = 1
    /\ Succeeded(variant, executed[1].outcome)

C15_RoundTripScenario ==
    (Returned /\ FirstRespond /\ OneInvocationScenario) =>
        /\ result.text = PlainAnswer.text
        /\ Len(contents) = 4

\* what does hold in both variants: an agent_loop whose every
\* generate_content call was answered appends two turns plus two per round
C15_TwoTurnsPerRound ==
    (Returned /\ FailedReplies = {}) =>
        /\ turn_count <= max_tool_turns
        /\ Len(contents) = preLen + 2 * turn_count + 2

(***************************************************************************)
(* C16: the tool catalog is populated once and never changes afterwards:   *)
(* once self.tools holds declarations no step replaces them by a different *)
(* set, and every generate_content request of later agent_loop calls       *)
(* carries that same set.                                                  *)
(***************************************************************************)
C16_CatalogImmutable ==
    [][/\ tools # {} => tools' = tools
       /\ (request.tools # {} /\ request'.tools # {}) => request'.tools = request.tools]_vars

(***************************************************************************)
(* The Flask adapters of MCPGeminiAgent (webapp.py, webapp_fixed.py).      *)
(* One request is served at a time; each view function runs the agent's    *)
(* coroutines through run_async, which webapp_fixed.py bounds by a         *)
(* timeout.                                                                *)
(***************************************************************************)
FlaskAdapters == {"webapp", "webapp_fixed"}

\* what run_async raises when asyncio.wait_for gives up on agent_loop
Cancelled == [type |-> "cancelled", kind |-> "TimeoutError", text |-> None]

\* the executor channels (subprocess pipes) a stack of entered contexts holds
Channels(stack) == Cardinality({i \in DOMAIN stack : stack[i] = "stdio_client"})

InitFlask ==
    /\ variant = "mcp"
    /\ contents = MCP_seed
    /\ tools = {}
    /\ adapter \in FlaskAdapters
    /\ agent = 0
    /\ connected = FALSE
    /\ exit_stack = << >>
    /\ route = "none"
    /\ at = "none"
    /\ message = ""
    /\ orphaned = 0
    /\ cancelled = << >>
    /\ session = "None"
    /\ NoQuart
    /\ NoStreamlit
    /\ LoopIdle

\* `if agent is None: agent = MCPGeminiAgent()`
Flask_agent == IF agent = 0 THEN 1 ELSE agent

\* POST /connect
Flask_connect ==
    /\ UNCHANGED <<session, quartVars, uiVars>>
    /\ adapter \in FlaskAdapters
    /\ route = "none"
    /\ Afford(1)
    /\ spent' = spent + 1
    /\ agent' = Flask_agent
    /\ IF connected
       THEN UNCHANGED <<route, at>>
       ELSE route' = "connect" /\ at' = "stdio_client"
    /\ UNCHANGED <<variant, contents, tools, pc, prompt, response, turn_count,
                   tool_response_parts, fc_index, request, result, log, executed,
                   preLen, adapter, connected, exit_stack, message, orphaned,
                   cancelled>>

\* a handler that calls agent_loop whether or not connect() has run
without_connect(is_connected) == "agent_loop"

\* `if not connected: run_async(agent.connect())` before agent_loop: what the
\* handler awaits first
after_connect_check(is_connected) ==
    IF is_connected THEN "agent_loop" ELSE "stdio_client"

\* POST /chat, up to the first await: the message is stripped and refused
\* when empty, the agent is made when missing, connect() is started when the
\* adapter is not connected, else agent_loop is about to be called.
Flask_chat(raw) ==
    /\ UNCHANGED <<session, quartVars, uiVars>>
    /\ adapter \in FlaskAdapters
    /\ route = "none"
    /\ Afford(PromptCost(raw))
    /\ spent' = spent + PromptCost(raw)
    /\ message' = strip(raw)
    /\ IF strip(raw) = ""
       THEN UNCHANGED <<agent, route, at, result>>
       ELSE /\ agent' = Flask_agent
            /\ route' = "chat"
            /\ at' = after_connect_check(connected)
            /\ result' = NoResult
    /\ UNCHANGED <<variant, contents, tools, pc, prompt, response, turn_count,
                   tool_response_parts, fc_index, request, log, executed, preLen,
                   adapter, connected, exit_stack, orphaned, cancelled>>

ConnectOutcomes == {"ok", "raise", "timeout"}

\* MCPGeminiAgent.connect, one await at a time: the stdio_client context and
\* the ClientSession context are entered on exit_stack, then the session is
\* initialized.  An await that raises, or that run_async abandons on its
\* timeout, ends the view function with an error; what was entered stays
\* on exit_stack and `connected` stays False.
MCP_connect(outcome) ==
    /\ UNCHANGED <<quartVars, uiVars>>
    /\ at \in {"stdio_client", "ClientSession", "initialize"}
    /\ outcome = "timeout" => adapter = "webapp_fixed"
    /\ Afford(IF outcome = "ok" THEN 0 ELSE 1)
    /\ spent' = spent + (IF outcome = "ok" THEN 0 ELSE 1)
    /\ IF outcome # "ok"
       THEN /\ route' = "none"
            /\ at' = "none"
            /\ UNCHANGED <<connected, exit_stack, result, session>>
       ELSE IF at # "initialize"
       THEN /\ exit_stack' = Append(exit_stack, at)
            /\ at' = IF at = "stdio_client" THEN "ClientSession" ELSE "initialize"
            /\ session' = IF at = "ClientSession" THEN "ClientSession" ELSE session
            /\ UNCHANGED <<connected, route, result>>
       ELSE /\ connected' = TRUE
            /\ session' = "initialized"
            /\ route' = IF route = "chat" THEN "chat" ELSE "none"
            /\ at' = IF route = "chat" THEN "agent_loop" ELSE "none"
            /\ result' = NoResult
            /\ UNCHANGED exit_stack
    /\ UNCHANGED <<variant, contents, tools, pc, prompt, response, turn_count,
                   tool_response_parts, fc_index, request, log, executed, preLen,
                   adapter, agent, message, orphaned, cancelled>>

\* chat(): run_async(agent.agent_loop(message))
Flask_agent_loop ==
    /\ route = "chat"
    /\ at = "agent_loop"
    /\ result = NoResult
    /\ MCP_agent_loop(message)

\* webapp_fixed.py run_async: asyncio.wait_for gives up while agent_loop is
\* suspended at an await; the coroutine is abandoned where it stands and
\* TimeoutError is raised to chat().
run_async_timeout ==
    /\ UNCHANGED <<session, quartVars, uiVars>>
    /\ adapter = "webapp_fixed"
    /\ route = "chat"
    /\ at = "agent_loop"
    /\ pc # "idle"
    /\ Afford(1)
    /\ spent' = spent + 1
    /\ pc' = "idle"
    /\ result' = Cancelled
    /\ cancelled' = <<contents>>
    /\ UNCHANGED <<variant, contents, tools, prompt, response, turn_count,
                   tool_response_parts, fc_index, request, log, executed, preLen,
                   adapter, agent, connected, exit_stack, route, at, message,
                   orphaned>>

\* chat() after run_async: the response text, or the error of whatever
\* run_async raised, is sent back as JSON.
Flask_chat_return ==
    /\ UNCHANGED <<session, quartVars, uiVars>>
    /\ route = "chat"
    /\ at = "agent_loop"
    /\ pc = "idle"
    /\ result # NoResult
    /\ route' = "none"
    /\ at' = "none"
    /\ UNCHANGED <<loopVars, adapter, agent, connected, exit_stack, message,
                   orphaned, cancelled>>

\* a reset that goes on with the store of the old agent
reset_contents_kept(old) == old

\* reset_agent: `agent = MCPGeminiAgent()`: the store of the object that
\* replaces the one holding `old`
reset_contents(old) == MCP_seed

\* webapp_fixed.py POST /reset_agent: cleanup() of the old agent is run with
\* a timeout and its failure is only printed, then a fresh agent replaces it.
\* `closed` says whether exit_stack.aclose() did close the entered contexts.
Flask_reset_agent(closed) ==
    /\ UNCHANGED <<quartVars, uiVars>>
    /\ adapter = "webapp_fixed"
    /\ route = "none"
    /\ closed \/ agent # 0
    /\ Afford(IF closed THEN 1 ELSE 2)
    /\ spent' = spent + (IF closed THEN 1 ELSE 2)
    /\ orphaned' = IF closed THEN orphaned ELSE orphaned + Channels(exit_stack)
    /\ agent' = agent + 1
    /\ session' = "None"
    /\ connected' = FALSE
    /\ exit_stack' = << >>
    /\ contents' = reset_contents(contents)
    /\ tools' = {}
    /\ cancelled' = << >>
    /\ UNCHANGED <<variant, pc, prompt, response, turn_count, tool_response_parts,
                   fc_index, request, result, log, executed, preLen, adapter,
                   route, at, message>>

NextFlask ==
    \/ Flask_connect
    \/ \E raw \in Prompts : Flask_chat(raw)
    \/ \E outcome \in ConnectOutcomes : MCP_connect(outcome)
    \/ Flask_agent_loop
    \/ MCP_list_tools_raises
    \/ \E catalog \in Catalogs : MCP_list_tools(catalog)
    \/ \E o \in ModelOutcomes : MCP_generate_first(o)
    \/ \E o \in ToolOutcomes : MCP_call_tool(o)
    \/ \E o \in ModelOutcomes : MCP_generate_next(o)
    \/ run_async_timeout
    \/ Flask_chat_return
    \/ \E closed \in BOOLEAN : Flask_reset_agent(closed)

SpecFlask == InitFlask /\ [][NextFlask]_vars

(***************************************************************************)
(* The Quart adapter of NewRelicGeminiAgent (simplechat_app.py).  The view *)
(* functions are coroutines of one event loop: a second request runs       *)
(* whenever the first one is suspended at an await.  Each slot of `req`    *)
(* holds the locals of one view coroutine and of the agent_loop it is in;  *)
(* `agents` holds the agent objects, the global `agent` names one of them. *)
(***************************************************************************)
\* NewRelicGeminiAgent.__init__
NewAgent == [contents |-> << >>, session_initialized |-> FALSE]

\* get_schema: analysis_prompt
analysis_prompt == "I've fetched the NerdGraph API schema"

\* the globals and coroutines of the application, as one value
QuartState == [agent |-> agent, agents |-> agents, messages |-> messages, req |-> req]

\* exploration price of a model reply under the adapter: every reply but
\* the plain answer is priced
QuartModelCost(o) == IF ~o.raised /\ o.response = PlainAnswer THEN 0 ELSE 1

\* format_response_with_markdown(response): the text is decorated and a
\* footer is added; it calls response.lower(), so None is not accepted
format_response_with_markdown(text) == <<"markdown", text, "footer">>

\* agent_loop(p) of agent object a is called by slot r: the user turn is
\* appended and the first generate_content call is sent
start_agent_loop(q, r, a, p, call, view) ==
    LET store == contents_append(q.agents[a].contents, UserTurn(p))
    IN  [q EXCEPT
           !.agents[a].contents = store,
           !.req[r] = [view |-> view, call |-> call, pc |-> "generate_first",
                       self |-> a, message |-> q.req[r].message,
                       response |-> NoResponse, turn_count |-> 0,
                       parts |-> NoParts, fc_index |-> 0,
                       request |-> GenerateContentRequest(store, first_temperature,
                                                          StaticTools)]]

\* an except branch that drops the agent and leaves `messages` alone
chat_failed_unlogged(q, r) ==
    [q EXCEPT
       !.agents = IF q.agent = 0 THEN q.agents
                  ELSE [q.agents EXCEPT ![q.agent].session_initialized = FALSE],
       !.agent = 0,
       !.req[r] = NoView]

\* chat(): the except branch after agent_loop: the error is logged in
\* `messages`, the global agent (if any) is cleaned up and dropped
chat_failed(q, r) ==
    [q EXCEPT
       !.messages = Append(q.messages, [role |-> "assistant", content |-> <<"### Error">>]),
       !.agents = IF q.agent = 0 THEN q.agents
                  ELSE [q.agents EXCEPT ![q.agent].session_initialized = FALSE],
       !.agent = 0,
       !.req[r] = NoView]

\* get_schema(): the except branch
schema_failed(q, r) ==
    [q EXCEPT
       !.messages = Append(q.messages,
                           [role |-> "assistant", content |-> <<"### Error Fetching Schema">>]),
       !.req[r] = NoView]

\* the view function of slot r goes on after `await agent.setup_connection()`:
\* it calls agent_loop (chat) or _execute_graphql (get_schema) on whatever the
\* global `agent` is by now
after_setup_connection(q, r) ==
    IF q.req[r].view = "chat"
    THEN IF q.agent = 0
         THEN chat_failed(q, r)
         ELSE start_agent_loop(q, r, q.agent, q.req[r].message, "main", "chat")
    ELSE IF q.agent = 0
         THEN schema_failed(q, r)
         ELSE [q EXCEPT !.req[r].pc = "schema_query", !.req[r].call = "none",
                        !.req[r].self = q.agent]

\* agent_loop of slot r returns `value`: setup_connection sets
\* session_initialized and the view function goes on; the view function's
\* own call formats the value and logs it
agent_loop_returns(q, r, value) ==
    IF q.req[r].call = "setup"
    THEN after_setup_connection(
             [q EXCEPT !.agents[q.req[r].self].session_initialized = TRUE], r)
    ELSE IF value.type = "None"
    THEN IF q.req[r].view = "chat" THEN chat_failed(q, r) ELSE schema_failed(q, r)
    ELSE [q EXCEPT
            !.messages = Append(q.messages,
                                [role |-> "assistant",
                                 content |-> format_response_with_markdown(value.text)]),
            !.req[r] = NoView]

\* the next values of the application state
QuartBecomes(q) ==
    /\ agent' = q.agent
    /\ agents' = q.agents
    /\ messages' = q.messages
    /\ req' = q.req

InitQuart ==
    /\ variant = "direct"
    /\ contents = << >>
    /\ tools = StaticTools
    /\ adapter = "quart"
    /\ agent = 0
    /\ connected = FALSE
    /\ exit_stack = << >>
    /\ route = "none"
    /\ at = "none"
    /\ message = ""
    /\ orphaned = 0
    /\ cancelled = << >>
    /\ session = "None"
    /\ NoQuart
    /\ NoStreamlit
    /\ LoopIdle

\* `if agent is None: agent = NewRelicGeminiAgent(); await agent.setup_connection()`
\* up to the await inside setup_connection, for slot r of view `view`
setup_new_agent(q, r, view) ==
    LET made == [q EXCEPT !.agents = Append(q.agents, NewAgent),
                          !.agent = Len(q.agents) + 1]
    IN  start_agent_loop(made, r, made.agent, initial_prompt, "setup", view)

\* POST /chat, up to its first await
Quart_chat(r, user_message) ==
    /\ adapter = "quart"
    /\ req[r].view = "none"
    /\ Afford(1 + PromptCost(user_message))
    /\ spent' = spent + 1 + PromptCost(user_message)
    /\ LET logged == [QuartState EXCEPT
                         !.messages = Append(messages, [role |-> "user",
                                                        content |-> <<user_message>>]),
                         !.req[r].message = user_message]
       IN  QuartBecomes(IF agent = 0
                        THEN setup_new_agent(logged, r, "chat")
                        ELSE start_agent_loop(logged, r, agent, user_message, "main", "chat"))
    /\ UNCHANGED <<callVars, session, flaskVars, uiVars, cleared>>

\* POST /chat while agent is None and an API key is missing from the
\* environment the new agent reads: setup_connection() raises ValueError
\* before its first await, after cleanup().  chat() logs the failure and
\* returns; the global `agent` keeps the object that was never set up.
Quart_chat_setup_raises(user_message) ==
    /\ adapter = "quart"
    /\ agent = 0
    /\ Afford(1 + PromptCost(user_message))
    /\ spent' = spent + 1 + PromptCost(user_message)
    /\ QuartBecomes([QuartState EXCEPT
                        !.messages = messages \o
                            << [role |-> "user", content |-> <<user_message>>],
                               [role |-> "assistant",
                                content |-> <<"Failed to initialize agent">>] >>,
                        !.agents = Append(agents, NewAgent),
                        !.agent = Len(agents) + 1])
    /\ UNCHANGED <<callVars, session, flaskVars, uiVars, cleared>>

\* POST /schema in the same situation: setup_connection() is awaited outside
\* the try block, so the ValueError leaves get_schema and nothing is logged.
Quart_schema_setup_raises ==
    /\ adapter = "quart"
    /\ agent = 0
    /\ Afford(1)
    /\ spent' = spent + 1
    /\ QuartBecomes([QuartState EXCEPT !.agents = Append(agents, NewAgent),
                                       !.agent = Len(agents) + 1])
    /\ UNCHANGED <<callVars, session, flaskVars, uiVars, cleared>>

\* POST /schema, up to its first await
Quart_schema(r) ==
    /\ adapter = "quart"
    /\ req[r].view = "none"
    /\ Afford(1)
    /\ spent' = spent + 1
    /\ QuartBecomes(IF agent = 0
                    THEN setup_new_agent(QuartState, r, "schema")
                    ELSE [QuartState EXCEPT
                             !.req[r] = [NoView EXCEPT !.view = "schema",
                                                       !.pc = "schema_query",
                                                       !.self = agent]])
    /\ UNCHANGED <<callVars, session, flaskVars, uiVars, cleared>>

\* A generate_content call of slot r completes (see NR_generate).
Quart_generate(r, o) ==
    /\ adapter = "quart"
    /\ req[r].pc \in {"generate_first", "generate_next"}
    /\ Afford(QuartModelCost(o))
    /\ spent' = spent + QuartModelCost(o)
    /\ LET me == req[r]
           a == me.self
       IN  IF o.raised \/ ~o.response.candidates
           THEN QuartBecomes(agent_loop_returns(QuartState, r, NR_error_return))
           ELSE LET store == contents_append(agents[a].contents, ModelTurn(o.response))
                    appended == [QuartState EXCEPT !.agents[a].contents = store,
                                                   !.req[r].response = o.response]
                IN  IF while_condition(o.response, me.turn_count)
                    THEN QuartBecomes([appended EXCEPT
                                          !.req[r].turn_count = me.turn_count + 1,
                                          !.req[r].parts = NoParts,
                                          !.req[r].fc_index = 1,
                                          !.req[r].pc = "call_tool"])
                    ELSE QuartBecomes(agent_loop_returns(
                                          appended, r, NR_return(o.response, me.turn_count)))
    /\ UNCHANGED <<callVars, session, flaskVars, uiVars, cleared>>

\* An _execute_graphql of slot r completes: one of the tool loop (see
\* NR_execute_graphql) or the introspection query of get_schema.
Quart_execute_graphql(r, h) ==
    /\ adapter = "quart"
    /\ req[r].pc \in {"call_tool", "schema_query"}
    /\ Afford(HttpCost(h))
    /\ spent' = spent + HttpCost(h)
    /\ LET me == req[r]
           a == me.self
       IN  IF me.pc = "schema_query"
           THEN QuartBecomes(
                    IF execute_graphql(h).raised \/ agent = 0
                    THEN schema_failed(QuartState, r)
                    ELSE start_agent_loop(QuartState, r, agent, analysis_prompt,
                                          "main", "schema"))
           ELSE LET tool_name == me.response.function_calls[me.fc_index]
                    parts == parts_append(me.parts,
                                 FunctionResponsePart(tool_name, NR_tool_response(h)))
                    store == contents_append(agents[a].contents, ToolTurn(parts))
                IN  IF me.fc_index < Len(me.response.function_calls)
                    THEN QuartBecomes([QuartState EXCEPT
                                          !.req[r].parts = parts,
                                          !.req[r].fc_index = me.fc_index + 1])
                    ELSE QuartBecomes([QuartState EXCEPT
                                          !.agents[a].contents = store,
                                          !.req[r].parts = parts,
                                          !.req[r].pc = "generate_next",
                                          !.req[r].request =
                                              GenerateContentRequest(
                                                  store, followup_temperature, StaticTools)])
    /\ UNCHANGED <<callVars, session, flaskVars, uiVars, cleared>>

\* POST /clear
Quart_clear_chat ==
    /\ adapter = "quart"
    /\ Afford(1)
    /\ spent' = spent + 1
    /\ messages' = << >>
    /\ cleared' = << [agent |-> agent,
                      store |-> IF agent = 0 THEN << >> ELSE agents[agent].contents] >>
    /\ UNCHANGED <<callVars, session, flaskVars, uiVars, agent, agents, req>>

NextQuart ==
    \/ \E r \in Requests, user_message \in Prompts : Quart_chat(r, user_message)
    \/ \E user_message \in Prompts : Quart_chat_setup_raises(user_message)
    \/ Quart_schema_setup_raises
    \/ \E r \in Requests : Quart_schema(r)
    \/ \E r \in Requests, o \in ModelOutcomes : Quart_generate(r, o)
    \/ \E r \in Requests, h \in HttpOutcomes : Quart_execute_graphql(r, h)
    \/ Quart_clear_chat

SpecQuart == InitQuart /\ [][NextQuart]_vars

(***************************************************************************)
(* C18: after an agent_loop was abandoned at a suspension point, the next  *)
(* agent_loop keeps every turn the abandoned one left in the store,        *)
(* appends its user turn right after them, and its first generate_content  *)
(* request carries exactly those turns followed by the new user turn.      *)
(***************************************************************************)
\* the running (or last) agent_loop is the one called right after a timeout
CalledAfterCancel == cancelled # << >> /\ Len(cancelled[1]) = preLen

C18_ResumesAfterCancel ==
    CalledAfterCancel =>
        /\ IsPrefix(cancelled[1], contents)
        /\ Len(contents) > preLen
        /\ contents[preLen + 1] = UserTurn(prompt)
        /\ pc = "generate_first" =>
               request.contents = Append(cancelled[1], UserTurn(prompt))

\* the abandoned agent_loop left a model turn whose invocations were never
\* answered, and the next agent_loop has sent its first request
C18_Witness ==
    /\ CalledAfterCancel
    /\ pc = "generate_first"
    /\ Last(cancelled[1]).role = "model"
    /\ Last(cancelled[1]).function_calls # << >>
    /\ request.contents = contents

(***************************************************************************)
(* C19: an agent never holds more than one open executor channel, and no   *)
(* channel stays open on an agent that was replaced.                       *)
(***************************************************************************)
C19_OneChannelReleased ==
    /\ Channels(exit_stack) <= 1
    /\ orphaned = 0

(***************************************************************************)
(* C17: at most one agent_loop call is in flight on an agent object at any *)
(* time, whatever view functions are being served.                         *)
(***************************************************************************)
\* the slots whose agent_loop on agent object a is suspended at an await
InFlight(a) ==
    {r \in Requests : /\ req[r].self = a
                      /\ req[r].pc \in {"generate_first", "call_tool", "generate_next"}}

C17_OneAgentLoopInFlight ==
    \A a \in DOMAIN agents : Cardinality(InFlight(a)) <= 1

(***************************************************************************)
(* C20: once /clear has run, no generate_content request sent afterwards   *)
(* on the agent that was current at the clear carries a chat message       *)
(* appended to its store before the clear (the turns of setup_connection   *)
(* count as the seed).                                                     *)
(***************************************************************************)
\* a user turn holding a message of /chat
IsChatTurn(turn) == turn.part = "text" /\ turn.text \in Prompts

C20_ClearStartsAfresh ==
    [][\A r \in Requests :
           (/\ cleared # << >>
            /\ cleared' = cleared
            /\ req'[r].request # req[r].request
            /\ req'[r].request # NoRequest
            /\ req'[r].self = cleared[1].agent)
           => \A i \in 1..Len(cleared[1].store) :
                  ~ (/\ IsChatTurn(cleared[1].store[i])
                     /\ i <= Len(req'[r].request.contents)
                     /\ req'[r].request.contents[i] = cleared[1].store[i])]_vars

(***************************************************************************)
(* C21: every part of every tool-result turn of the store carries exactly  *)
(* one of "result" and "error" together with its content; a call that      *)
(* raised gives "error" and a call that succeeded gives "result".          *)
(***************************************************************************)
C21_ExactlyOneOfValueOrError ==
    /\ \A k \in DOMAIN contents :
           IsToolTurn(contents[k]) =>
               \A i \in DOMAIN contents[k].responses :
                   /\ contents[k].responses[i].key \in {"result", "error"}
                   /\ contents[k].responses[i].text # << >>
    /\ \A i \in DOMAIN executed :
           i \in DOMAIN tool_response_parts =>
               /\ tool_response_parts[i].key \in {"result", "error"}
               /\ TransportFailure(executed[i].outcome) =>
                      tool_response_parts[i].key = "error"
               /\ Succeeded(variant, executed[i].outcome) =>
                      tool_response_parts[i].key = "result"

\* one tool-result turn of the store answers a reply of two invocations,
\* one with a value and one with an error
C21_Witness ==
    \E k \in DOMAIN contents :
        /\ IsToolTurn(contents[k])
        /\ Len(contents[k].responses) = 2
        /\ {contents[k].responses[1].key, contents[k].responses[2].key}
               = {"result", "error"}

(***************************************************************************)
(* C22: the store persists across agent_loop calls: a call appends its     *)
(* user turn to the store the earlier calls left, every generate_content   *)
(* request carries the whole store, and the first request of a call is     *)
(* that earlier store followed by the new user turn.                       *)
(***************************************************************************)
C22_ConversationPersists ==
    [][/\ (pc = "idle" /\ pc' # "idle") =>
              /\ contents' = Append(contents, UserTurn(prompt'))
              /\ preLen' = Len(contents)
       /\ (request' # request /\ request' # NoRequest) =>
              /\ request'.contents = contents'
              /\ IsPrefix(contents, contents')
       /\ (pc # "generate_first" /\ pc' = "generate_first") =>
              /\ request'.contents = contents'
              /\ Len(contents') = preLen' + 1
              /\ Last(contents') = UserTurn(prompt')]_vars

\* the first request of a later agent_loop carries the turns of an earlier
\* one that went through a tool round
C22_Witness ==
    /\ pc = "generate_first"
    /\ Len(request.contents) = preLen + 1
    /\ \E k \in 1..preLen : IsToolTurn(request.contents[k])
    /\ \E k \in 1..preLen :
           request.contents[k].role = "model" /\ request.contents[k].text = PlainAnswer.text

(***************************************************************************)
(* C23: in MCPGeminiAgent the invocations of a model reply are sent to the *)
(* executor at most once: every call_tool of an agent_loop answers the     *)
(* reply of the generate_content call made just before it, never a reply   *)
(* already answered, also after a follow-up call that raised or returned   *)
(* no candidates.                                                          *)
(***************************************************************************)
\* the reply event that precedes position i of the log most closely
ReplyBefore(i) ==
    CHOOSE j \in ReplyEvents : j < i /\ \A k \in ReplyEvents : k < i => k <= j

C23_InvocationsExecutedOnce ==
    variant = "mcp" =>
        \A i \in DOMAIN log :
            log[i].ev = "call_tool" => log[ReplyBefore(i)].what = "ok"

(***************************************************************************)
(* C24: one agent_loop makes at most 6 generate_content calls and appends  *)
(* at most 5 tool-result turns, whatever the model and the executor do.    *)
(***************************************************************************)
\* the tool-result turns appended by the running (or last) agent_loop
AppendedToolTurns ==
    Cardinality({k \in DOMAIN contents : k > preLen /\ IsToolTurn(contents[k])})

C24_BoundedCalls ==
    /\ ModelCalls <= max_tool_turns + 1
    /\ AppendedToolTurns <= max_tool_turns
    /\ AppendedToolTurns <= turn_count

\* an agent_loop that used the whole allowance
C24_Witness ==
    /\ Returned
    /\ ModelCalls = max_tool_turns + 1
    /\ AppendedToolTurns = max_tool_turns

(***************************************************************************)
(* C25: when agent_loop ends by truncation (its test `turn_count >=        *)
(* max_tool_turns and response.function_calls` is true when the loop is    *)
(* left), the last turn of the store is a model turn that carries          *)
(* invocations, with no tool-result turn after it.                         *)
(***************************************************************************)
\* agent_loop returned through its truncation test
EndedByTruncation ==
    /\ Returned
    /\ truncated(response, turn_count)
    /\ variant = "direct" => result.kind = "truncated"

C25_TruncationLeavesModelTurn ==
    EndedByTruncation =>
        /\ Last(contents).role = "model"
        /\ Last(contents).function_calls # << >>

\* what does hold in both variants: when the reply to the last
\* generate_content call asked for tools and the allowance is used up, that
\* reply is the last turn of the store
C25_UnansweredReplyIsLast ==
    (Returned /\ turn_count >= max_tool_turns /\ LastReplyRequestsTools) =>
        /\ Last(contents) = ModelTurn(response)
        /\ response.function_calls # << >>

(***************************************************************************)
(* The Streamlit adapter of MCPGeminiAgent (ui.py).  The script is run     *)
(* from top to bottom after every interaction; a run that awaits nothing   *)
(* is one step, and the run of the pending request handler is split at the *)
(* awaits of connect() and agent_loop.  Widgets are disabled while         *)
(* `processing` is True, so the input and the buttons act only when it is  *)
(* False and no run is in progress.                                        *)
(***************************************************************************)
\* the session state of the script, as one value
UIState ==
    [chat_history |-> chat_history, processing |-> processing,
     user_request |-> user_request, current_request |-> current_request,
     script |-> script, accepted |-> accepted, passed |-> passed]

\* a handler that leaves the request in the session state
user_request_kept(current) == current

\* pending request handler: st.session_state.user_request = None
user_request_cleared(current) == None

\* One script run with no new input and no button pressed, up to its first
\* await: the pending request handler starts when `processing and
\* user_request`, else the run ends.
run_script(u, is_connected) ==
    IF u.processing /\ u.user_request # None
    THEN LET first == after_connect_check(is_connected)
         IN  [u EXCEPT !.current_request = u.user_request,
                       !.user_request = user_request_cleared(u.user_request),
                       !.script = first,
                       !.passed = IF first = "agent_loop" THEN u.passed + 1 ELSE u.passed]
    ELSE [u EXCEPT !.script = "none"]

\* the handler's last lines: the answer is appended, processing is reset and
\* st.rerun() runs the script again
answer_appended(u, answer, is_connected) ==
    run_script([u EXCEPT !.chat_history = Append(u.chat_history, <<"assistant", answer>>),
                         !.processing = FALSE,
                         !.script = "none"], is_connected)

\* the next values of the session state; `result` is reset when the handler
\* is about to call agent_loop
UIBecomes(u) ==
    /\ chat_history' = u.chat_history
    /\ processing' = u.processing
    /\ user_request' = u.user_request
    /\ current_request' = u.current_request
    /\ script' = u.script
    /\ accepted' = u.accepted
    /\ passed' = u.passed
    /\ result' = IF u.script = "agent_loop" THEN NoResult ELSE result

\* What the handler shows for the value agent_loop returned (None when it
\* raised).  A SimpleResponse has a text and no candidates; the text of a
\* Gemini response is read as response.candidates[0].content.text inside a
\* try/except, and the google-genai classes decide whether that read raises.
UI_answers(res) ==
    IF res.type \in {"exception", "None"}
    THEN {"I'm sorry, I couldn't generate a response. Please try again."}
    ELSE IF res.kind = "response"
    THEN {res.text, "Error processing response"}
    ELSE {res.text}

InitStreamlit ==
    /\ variant = "mcp"
    /\ contents = MCP_seed
    /\ tools = {}
    /\ adapter = "streamlit"
    /\ agent = 1
    /\ session = "None"
    /\ connected = FALSE
    /\ exit_stack = << >>
    /\ route = "none"
    /\ at = "none"
    /\ message = ""
    /\ orphaned = 0
    /\ cancelled = << >>
    /\ NoQuart
    /\ NoStreamlit
    /\ CallIdle
    /\ spent = 1

\* The text input's on_change callback followed by the script run: a
\* non-blank text becomes user_request and processing is set.
UI_handle_message_submit(text) ==
    /\ adapter = "streamlit"
    /\ script = "none"
    /\ ~processing
    /\ Afford(PromptCost(text))
    /\ spent' = spent + PromptCost(text)
    /\ UIBecomes(run_script(
           IF strip(text) # ""
           THEN [UIState EXCEPT !.user_request = strip(text),
                                !.processing = TRUE,
                                !.accepted = accepted + 1,
                                !.passed = 0]
           ELSE UIState, connected))
    /\ UNCHANGED <<variant, contents, tools, pc, prompt, response, turn_count,
                   tool_response_parts, fc_index, request, log, executed, preLen,
                   agent, session, flaskVars, quartVars>>

\* A script run that finds a non-blank text in the input while processing
\* is False: the user entry is appended, the request is saved, st.rerun().
UI_new_input(text) ==
    /\ adapter = "streamlit"
    /\ script = "none"
    /\ ~processing
    /\ strip(text) # ""
    /\ UIBecomes(run_script(
           [UIState EXCEPT !.chat_history = Append(chat_history, <<"user", strip(text)>>),
                           !.user_request = strip(text),
                           !.processing = TRUE,
                           !.accepted = accepted + 1,
                           !.passed = 0], connected))
    /\ UNCHANGED <<variant, contents, tools, pc, prompt, response, turn_count,
                   tool_response_parts, fc_index, request, log, executed, preLen,
                   spent, agent, session, flaskVars, quartVars>>

\* The Clear Chat button.
UI_clear ==
    /\ adapter = "streamlit"
    /\ script = "none"
    /\ ~processing
    /\ Afford(1)
    /\ spent' = spent + 1
    /\ UIBecomes(run_script([UIState EXCEPT !.chat_history = << >>,
                                            !.user_request = None,
                                            !.processing = FALSE], connected))
    /\ UNCHANGED <<variant, contents, tools, pc, prompt, response, turn_count,
                   tool_response_parts, fc_index, request, log, executed, preLen,
                   agent, session, flaskVars, quartVars>>

\* The handler's connect(), one await at a time (see MCP_connect).  When an
\* await raises, the handler's except branch answers with the error.
UI_connect(outcome) ==
    /\ adapter = "streamlit"
    /\ script \in {"stdio_client", "ClientSession", "initialize"}
    /\ outcome \in {"ok", "raise"}
    /\ Afford(IF outcome = "ok" THEN 0 ELSE 1)
    /\ spent' = spent + (IF outcome = "ok" THEN 0 ELSE 1)
    /\ IF outcome # "ok"
       THEN /\ UIBecomes(answer_appended(UIState, "Error processing your request",
                                         connected))
            /\ UNCHANGED <<connected, exit_stack, session>>
       ELSE IF script # "initialize"
       THEN /\ exit_stack' = Append(exit_stack, script)
            /\ session' = IF script = "ClientSession" THEN "ClientSession" ELSE session
            /\ UIBecomes([UIState EXCEPT !.script = IF script = "stdio_client"
                                                    THEN "ClientSession"
                                                    ELSE "initialize"])
            /\ UNCHANGED connected
       ELSE /\ connected' = TRUE
            /\ session' = "initialized"
            /\ UIBecomes([UIState EXCEPT !.script = "agent_loop",
                                         !.passed = passed + 1])
            /\ UNCHANGED exit_stack
    /\ UNCHANGED <<variant, contents, tools, pc, prompt, response, turn_count,
                   tool_response_parts, fc_index, request, log, executed, preLen,
                   agent, adapter, route, at, message, orphaned, cancelled, quartVars>>

\* run_async(st.session_state.agent.agent_loop(current_request))
UI_agent_loop ==
    /\ adapter = "streamlit"
    /\ script = "agent_loop"
    /\ result = NoResult
    /\ MCP_agent_loop(current_request)

\* agent_loop has returned or raised: the answer is taken from the
\* response, appended to chat_history, processing is reset, st.rerun().
UI_answer ==
    /\ adapter = "streamlit"
    /\ script = "agent_loop"
    /\ pc = "idle"
    /\ result # NoResult
    /\ \E answer \in UI_answers(result) :
           LET cost == IF answer = "Error processing response" THEN 1 ELSE 0
           IN  /\ Afford(cost)
               /\ spent' = spent + cost
               /\ UIBecomes(answer_appended(UIState, answer, connected))
    /\ UNCHANGED <<variant, contents, tools, pc, prompt, response, turn_count,
                   tool_response_parts, fc_index, request, log, executed, preLen,
                   agent, session, flaskVars, quartVars>>

\* The script run ends inside the pending request handler without reaching
\* its last lines: an exception that `except Exception` does not catch
\* (a BaseException such as CancelledError or KeyboardInterrupt out of
\* run_async, or the runtime stopping the script thread).  The handler has
\* no try/finally.  The next script run starts from the top.
UI_script_stopped ==
    /\ adapter = "streamlit"
    /\ script # "none"
    /\ pc = "idle"
    /\ Afford(1)
    /\ spent' = spent + 1
    /\ UIBecomes(run_script([UIState EXCEPT !.script = "none"], connected))
    /\ UNCHANGED <<variant, contents, tools, pc, prompt, response, turn_count,
                   tool_response_parts, fc_index, request, log, executed, preLen,
                   agent, session, flaskVars, quartVars>>

\* the steps of MCPGeminiAgent.agent_loop after its call
MCP_agent_loop_steps ==
    \/ MCP_list_tools_raises
    \/ \E catalog \in Catalogs : MCP_list_tools(catalog)
    \/ \E o \in ModelOutcomes : MCP_generate_first(o)
    \/ \E o \in ToolOutcomes : MCP_call_tool(o)
    \/ \E o \in ModelOutcomes : MCP_generate_next(o)

UI_steps ==
    \/ \E text \in Prompts : UI_handle_message_submit(text)
    \/ \E text \in Prompts : UI_new_input(text)
    \/ UI_clear
    \/ \E outcome \in ConnectOutcomes : UI_connect(outcome)
    \/ UI_agent_loop
    \/ UI_answer
    \/ UI_script_stopped

NextStreamlit == UI_steps \/ MCP_agent_loop_steps

SpecStreamlit == InitStreamlit /\ [][NextStreamlit]_vars

(***************************************************************************)
(* C28: in the Streamlit UI an accepted request is passed to agent_loop at *)
(* most once whatever script runs follow (user_request is None from the    *)
(* moment the handler has taken it), and a request is accepted only while  *)
(* processing is False.  `accepted` counts the requests accepted, `passed` *)
(* the calls of agent_loop made for the latest of them.                    *)
(***************************************************************************)
C28_RequestPassedAtMostOnce ==
    [][/\ passed' <= 1
       /\ (passed' > 0 => accepted' > 0 /\ current_request' # None)
       /\ (script' # "none" => user_request' = None)
       /\ (accepted' # accepted => ~processing /\ accepted' = accepted + 1)
       /\ (passed' = passed + 1 => script' = "agent_loop" /\ pc' = "idle")]_vars

\* the second request has been accepted, passed once and answered
C28_Witness ==
    /\ adapter = "streamlit"
    /\ accepted = 2
    /\ passed = 1
    /\ script = "none"
    /\ ~processing
    /\ Len(chat_history) >= 2

(***************************************************************************)
(* C29: in the Streamlit UI, whenever processing is True a request is      *)
(* pending (user_request is set) or being handled (the handler is running),*)
(* including after a script run that was stopped between the clearing of   *)
(* user_request and the reset of processing.                               *)
(***************************************************************************)
C29_ProcessingHasRequest ==
    (adapter = "streamlit" /\ processing) =>
        (user_request # None \/ script # "none")

\* every handled request ends with processing False and one more assistant
\* entry (holds: the handler's last lines run on every path it finishes)
C29_HandledRequestAnswered ==
    [][(script # "none" /\ script' = "none" /\ ~processing') =>
           /\ Len(chat_history') = Len(chat_history) + 1
           /\ Last(chat_history')[1] = "assistant"]_vars

(***************************************************************************)
(* C30: in the Streamlit UI every assistant entry of chat_history is       *)
(* directly preceded by a user entry, whichever way the request was        *)
(* submitted.                                                              *)
(***************************************************************************)
C30_AssistantAnswersUserEntry ==
    adapter = "streamlit" =>
        \A i \in 1..Len(chat_history) :
            chat_history[i][1] = "assistant" =>
                (i > 1 /\ chat_history[i - 1][1] = "user")

(***************************************************************************)
(* C27: in the Quart adapter, chat() calls agent_loop with the user        *)
(* message only on an agent whose setup_connection() has completed         *)
(* (session_initialized is True at the call), also for a request that      *)
(* arrives while the setup_connection() of another request is awaiting.    *)
(***************************************************************************)
C27_AgentLoopAfterSetup ==
    [][\A r \in Requests :
           (/\ req'[r].view = "chat"
            /\ req'[r].call = "main"
            /\ req[r].call # "main")
           => agents'[req'[r].self].session_initialized]_vars

(***************************************************************************)
(* The terminal adapter of MCPGeminiAgent (client.py: main and chat), and  *)
(* every adapter of the subprocess variant under one specification.        *)
(* `script` is the position of main(): the awaits of connect(), then the   *)
(* input prompt of chat(), then "exited".                                  *)
(***************************************************************************)
MCPAdapters == FlaskAdapters \cup {"streamlit", "main"}

ConnectAwaits == {"stdio_client", "ClientSession", "initialize"}

InitAdapters ==
    /\ variant = "mcp"
    /\ contents = MCP_seed
    /\ tools = {}
    /\ adapter \in MCPAdapters
    /\ agent = IF adapter \in FlaskAdapters THEN 0 ELSE 1
    /\ session = "None"
    /\ connected = FALSE
    /\ exit_stack = << >>
    /\ route = "none"
    /\ at = "none"
    /\ message = ""
    /\ orphaned = 0
    /\ cancelled = << >>
    /\ NoQuart
    /\ chat_history = << >>
    /\ processing = FALSE
    /\ user_request = None
    /\ current_request = None
    /\ script = IF adapter = "main" THEN "stdio_client" ELSE "none"
    /\ accepted = 0
    /\ passed = 0
    /\ CallIdle
    /\ spent = 1

\* main(): await agent.connect(), one await at a time.  An await that raises
\* leaves main() through its finally clause: cleanup() closes exit_stack and
\* chat() is never entered.
Main_connect(outcome) ==
    /\ adapter = "main"
    /\ script \in ConnectAwaits
    /\ outcome \in {"ok", "raise"}
    /\ Afford(IF outcome = "ok" THEN 0 ELSE 1)
    /\ spent' = spent + (IF outcome = "ok" THEN 0 ELSE 1)
    /\ IF outcome # "ok"
       THEN /\ script' = "exited"
            /\ exit_stack' = << >>
            /\ UNCHANGED session
       ELSE IF script # "initialize"
       THEN /\ exit_stack' = Append(exit_stack, script)
            /\ session' = IF script = "ClientSession" THEN "ClientSession" ELSE session
            /\ script' = IF script = "stdio_client" THEN "ClientSession" ELSE "initialize"
       ELSE /\ session' = "initialized"
            /\ script' = "input"
            /\ UNCHANGED exit_stack
    /\ UNCHANGED <<callVars, agent, adapter, connected, route, at, message,
                   orphaned, cancelled, quartVars, chat_history,
                   processing, user_request, current_request, accepted, passed>>

\* chat(): a query other than 'quit' is stripped and passed to agent_loop
Main_query(raw) ==
    /\ adapter = "main"
    /\ script = "input"
    /\ strip(raw) # "quit"
    /\ MCP_agent_loop(strip(raw))

\* chat(): 'quit' (or Ctrl-C at the prompt) ends the loop, main() runs
\* cleanup() in its finally clause
Main_quit ==
    /\ adapter = "main"
    /\ script = "input"
    /\ pc = "idle"
    /\ Afford(1)
    /\ spent' = spent + 1
    /\ script' = "exited"
    /\ exit_stack' = << >>
    /\ UNCHANGED <<callVars, agent, session, adapter, connected, route, at, message,
                   orphaned, cancelled, quartVars,
                   chat_history, processing, user_request, current_request,
                   accepted, passed>>

Main_steps ==
    \/ \E outcome \in ConnectOutcomes : Main_connect(outcome)
    \/ \E raw \in Prompts : Main_query(raw)
    \/ Main_quit

Flask_steps ==
    \/ Flask_connect
    \/ \E raw \in Prompts : Flask_chat(raw)
    \/ \E outcome \in ConnectOutcomes : MCP_connect(outcome)
    \/ Flask_agent_loop
    \/ run_async_timeout
    \/ Flask_chat_return
    \/ \E closed \in BOOLEAN : Flask_reset_agent(closed)

NextAdapters == Flask_steps \/ UI_steps \/ Main_steps \/ MCP_agent_loop_steps

SpecAdapters == InitAdapters /\ [][NextAdapters]_vars

(***************************************************************************)
(* C26: in the Flask /chat handlers, the Streamlit UI and main(),          *)
(* agent_loop is called on an agent only after connect() has completed on  *)
(* it (its session is initialized); a connect() that fails or times out    *)
(* ends the request without a call of agent_loop and leaves `connected`    *)
(* False.                                                                  *)
(***************************************************************************)
InConnect == at \in ConnectAwaits \/ script \in ConnectAwaits

C26_AgentLoopAfterConnect ==
    [][/\ (pc = "idle" /\ pc' # "idle") =>
              /\ session = "initialized"
              /\ adapter # "main" => connected
       /\ connected' => session' = "initialized"
       /\ (InConnect /\ ~InConnect' /\ session' # "initialized") =>
              /\ ~connected'
              /\ pc' = "idle"
              /\ at' = "none"
              /\ script' \in {"none", "exited"}]_vars

\* agent_loop runs on an agent whose first connect() failed after entering
\* a context and whose second connect() succeeded
C26_Witness ==
    /\ pc # "idle"
    /\ session = "initialized"
    /\ Len(exit_stack) > 2

(***************************************************************************)
(* C31: in webapp_fixed, when /reset_agent returns the global agent is a   *)
(* new object that holds only the seed turns, has no session and no       *)
(* entered context, and connected is False, whether or not cleanup() of    *)
(* the old agent closed anything; from then on agent_loop is called only   *)
(* after connect() has completed on the new agent, whose store still       *)
(* holds the seed turns alone until that call.                             *)
(***************************************************************************)
\* the step of /reset_agent: the only request that replaces the agent and
\* is over in one step
ResetStep ==
    /\ adapter = "webapp_fixed"
    /\ route = "none"
    /\ route' = "none"
    /\ agent' # agent

C31_ResetGivesFreshAgent ==
    [][/\ ResetStep =>
              /\ agent' \notin 0..agent
              /\ contents' = MCP_seed
              /\ tools' = {}
              /\ session' = "None"
              /\ exit_stack' = << >>
              /\ ~connected'
              /\ pc' = "idle"
       /\ ~connected' => (contents' = MCP_seed /\ pc' = "idle")
       /\ (pc = "idle" /\ pc' # "idle") =>
              (connected /\ session = "initialized")]_vars

\* the old agent was reset while its cleanup() closed nothing, and the next
\* /chat has connected the new agent and is about to call agent_loop on it
C31_Witness ==
    /\ adapter = "webapp_fixed"
    /\ agent >= 2
    /\ orphaned > 0
    /\ connected
    /\ route = "chat"
    /\ at = "agent_loop"
    /\ contents = MCP_seed

(***************************************************************************)
(* NewRelicGeminiAgent called without an adapter (simplechat.py):          *)
(* setup_connection(), cleanup() and agent_loop() on one agent object, one *)
(* call at a time.  `session` is session_initialized and `route` says      *)
(* whether the running agent_loop was called by setup_connection().        *)
(***************************************************************************)
\* a setup_connection that never returns early
setup_connection_always_runs(initialized) == FALSE

\* setup_connection: `if self.session_initialized: return self`
setup_connection_returns_early(initialized) == initialized

InitDirect ==
    /\ variant = "direct"
    /\ contents = << >>
    /\ tools = StaticTools
    /\ adapter = "simplechat"
    /\ agent = 1
    /\ session = "None"
    /\ connected = FALSE
    /\ exit_stack = << >>
    /\ route = "none"
    /\ at = "none"
    /\ message = ""
    /\ orphaned = 0
    /\ cancelled = << >>
    /\ NoQuart
    /\ NoStreamlit
    /\ CallIdle
    /\ spent = 1

\* setup_connection() is called: it returns at once when the session is
\* initialized; without the API keys it raises after cleanup(); else it is
\* about to await agent_loop(initial_prompt).
NR_setup_connection(keys) ==
    /\ adapter = "simplechat"
    /\ route = "none"
    /\ pc = "idle"
    /\ IF setup_connection_returns_early(session = "initialized")
       THEN /\ Afford(1)
            /\ spent' = spent + 1
            /\ UNCHANGED <<session, route, result>>
       ELSE IF ~keys
       THEN /\ Afford(1)
            /\ spent' = spent + 1
            /\ session' = "None"
            /\ UNCHANGED <<route, result>>
       ELSE /\ route' = "setup_connection"
            /\ result' = NoResult
            /\ UNCHANGED <<session, spent>>
    /\ UNCHANGED <<variant, contents, tools, pc, prompt, response, turn_count,
                   tool_response_parts, fc_index, request, log, executed, preLen,
                   agent, adapter, connected, exit_stack, at, message, orphaned,
                   cancelled, quartVars, uiVars>>

\* setup_connection: await self.agent_loop(initial_prompt)
NR_setup_agent_loop ==
    /\ adapter = "simplechat"
    /\ route = "setup_connection"
    /\ result = NoResult
    /\ NR_agent_loop(initial_prompt)

\* setup_connection after its agent_loop has returned (agent_loop returns a
\* string or None on every path): self.session_initialized = True
NR_setup_returns ==
    /\ adapter = "simplechat"
    /\ route = "setup_connection"
    /\ pc = "idle"
    /\ result # NoResult
    /\ session' = "initialized"
    /\ route' = "none"
    /\ UNCHANGED <<loopVars, agent, adapter, connected, exit_stack, at, message,
                   orphaned, cancelled, quartVars, uiVars>>

\* cleanup(): self.session_initialized = False
NR_cleanup ==
    /\ adapter = "simplechat"
    /\ route = "none"
    /\ pc = "idle"
    /\ Afford(IF session = "initialized" THEN 0 ELSE 1)
    /\ spent' = spent + (IF session = "initialized" THEN 0 ELSE 1)
    /\ session' = "None"
    /\ UNCHANGED <<callVars, agent, adapter, connected, exit_stack, route, at,
                   message, orphaned, cancelled, quartVars, uiVars>>

\* agent_loop(prompt) called by the user of the class
Direct_agent_loop(p) ==
    /\ adapter = "simplechat"
    /\ route = "none"
    /\ NR_agent_loop(p)

NextDirect ==
    \/ \E keys \in BOOLEAN : NR_setup_connection(keys)
    \/ NR_setup_agent_loop
    \/ NR_setup_returns
    \/ NR_cleanup
    \/ \E p \in Prompts : Direct_agent_loop(p)
    \/ \E o \in ModelOutcomes : NR_generate(o)
    \/ \E h \in HttpOutcomes : NR_execute_graphql(h)

SpecDirect == InitDirect /\ [][NextDirect]_vars

(***************************************************************************)
(* C32: setup_connection() on an initialized NewRelicGeminiAgent makes no  *)
(* model call and appends no turn; cleanup() changes session_initialized   *)
(* and nothing else of the agent; a setup_connection() after cleanup()     *)
(* appends the seed prompt after the turns already in the store.           *)
(***************************************************************************)
C32_SetupIdempotentCleanupKeepsStore ==
    [][/\ (route' = "setup_connection" /\ route # "setup_connection") =>
              session # "initialized"
       /\ (session = "initialized" /\ route = "none" /\ pc = "idle" /\ pc' = "idle") =>
              (contents' = contents /\ request' = request /\ log' = log)
       /\ (session = "initialized" /\ session' # "initialized") =>
              (callVars' = callVars /\ route' = route)
       /\ (route = "setup_connection" /\ pc = "idle" /\ pc' # "idle") =>
              /\ contents' = Append(contents, UserTurn(initial_prompt))
              /\ request'.contents = contents']_vars

\* the agent was set up, cleaned up and set up again: the store holds the
\* seed prompt twice, the second one after the first conversation
C32_Witness ==
    /\ adapter = "simplechat"
    /\ session = "initialized"
    /\ route = "none"
    /\ Len(contents) >= 4
    /\ contents[1] = UserTurn(initial_prompt)
    /\ \E j \in 3..Len(contents) : contents[j] = UserTurn(initial_prompt)

(***************************************************************************)
(* C33: in the Quart adapter every /chat request appends to `messages`     *)
(* one user entry when it starts and one assistant entry when it           *)
(* completes, on every path, and appends nothing in between; every change  *)
(* of `messages` is such an append, the assistant entry of a completed     *)
(* /schema, or the reset of /clear.                                        *)
(***************************************************************************)
\* the slots whose view function starts, or returns, in the step
StartedChats == {r \in Requests : req[r].view = "none" /\ req'[r].view = "chat"}

CompletedViews == {r \in Requests : req[r].view # "none" /\ req'[r].view = "none"}

====
